---- MODULE Spec2Model ----
\* The "reflect" contract (contracts/reflect/src/contract.rs) and the Response
\* envelope of cosmwasm_std (packages/std/src/results/response.rs) as a state
\* machine: the persisted config singleton is the state, and every entry point
\* call (init, handle, query) is one atomic step.
EXTENDS Integers, Sequences, FiniteSets, TLC

VARIABLES
    storage,      \* the value under the "config" key: <<>> or <<serialized State>>
    pre,          \* storage as it was when the last call started
    call,         \* the last entry point call: its name and its arguments
    result,       \* what the last call returned
    wrote,        \* whether the last call wrote the "config" key (Storage::set)
    prevCall,     \* the call before the last one
    prevResult,   \* what the call before the last one returned
    envelope,     \* a Response a caller of the library builds step by step
    log           \* the builder calls made on envelope so far, in call order

contractVars == <<storage, pre, call, result, wrote, prevCall, prevResult>>
respVars == <<envelope, log>>
vars == <<storage, pre, call, result, wrote, prevCall, prevResult, envelope, log>>

-----------------------------------------------------------------------------
\* Bounds and small input sets

\* longest message list passed to ReflectMsg
MaxMsgs == 2
\* most builder calls made on one Response
MaxOps == 3

\* The address collaborator pads a human address with NUL bytes to the fixed
\* canonical length and rejects human addresses shorter than a minimum or
\* longer than the canonical length. The canonical length is scaled down here
\* (MockApi uses 24); the addresses below keep their position relative to it.
CanonicalLength == 4
MinHumanLen == 3

\* Human addresses are strings of non-NUL bytes.
Creator == <<1, 2, 3>>
Friend == <<2, 1, 3>>
Random == <<3, 3, 1, 2>>
TooShort == <<1>>
TooLong == <<1, 2, 3, 1, 2>>
HumanAddrs == {Creator, Friend, Random, TooShort, TooLong}

\* env.contract.address
MOCK_CONTRACT_ADDR == <<2, 2, 2>>
ContractAddrs == {MOCK_CONTRACT_ADDR, <<3, 1, 3, 1>>}

CallbackIds == {"foobar", "x"}

\* Option<T>
None == <<>>
Some(x) == <<x>>
Options(S) == {None} \cup {Some(x) : x \in S}

\* Result<T, E>
Ok(v) == [ok |-> TRUE, val |-> v]
Err(e) == [ok |-> FALSE, err |-> e]

-----------------------------------------------------------------------------
\* Errors

\* StdError::generic_err
generic_err(msg) == [kind |-> "GenericErr", msg |-> msg]
\* StdError::not_found
not_found(what) == [kind |-> "NotFound", msg |-> what]
\* StdError::serialize_err, the only error Singleton::save can return
serialize_err(what) == [kind |-> "SerializeErr", msg |-> what]

\* ReflectError::Std, by From<StdError> at every `?` inside handle
Std(e) == [kind |-> "Std", source |-> e]
NotCurrentOwner(expected, actual) ==
    [kind |-> "NotCurrentOwner", expected |-> expected, actual |-> actual]
MessagesEmpty == [kind |-> "MessagesEmpty"]

-----------------------------------------------------------------------------
\* Address collaborator (deps.api)

Pad(n) == [i \in 1..n |-> 0]

canonical_address(human) ==
    IF Len(human) < MinHumanLen
    THEN Err(generic_err("Invalid input: human address too short"))
    ELSE IF Len(human) > CanonicalLength
    THEN Err(generic_err("Invalid input: human address too long"))
    ELSE Ok(human \o Pad(CanonicalLength - Len(human)))

IsNotNul(b) == b # 0

human_address(canonical) ==
    IF Len(canonical) # CanonicalLength
    THEN Err(generic_err("Invalid input: canonical address length not correct"))
    ELSE Ok(SelectSeq(canonical, IsNotNul))

-----------------------------------------------------------------------------
\* Wire encoding (to_binary / to_vec / from_binary) of the structs the contract
\* serializes: a struct is written as its name tag followed by its fields.

to_binary_State(state) == <<"state", state.owner>>
from_binary_State(bytes) == [owner |-> bytes[2]]

to_binary_InitCallback(data) == <<"init_callback", data.id, data.contract_addr>>
from_binary_InitCallback(bytes) == [id |-> bytes[2], contract_addr |-> bytes[3]]

to_binary_OwnerResponse(resp) == <<"owner", resp.owner>>

-----------------------------------------------------------------------------
\* State store: the singleton under the "config" key

\* Singleton::load
load(store) ==
    IF store = None
    THEN Err(not_found("reflect::state::State"))
    ELSE Ok(from_binary_State(store[1]))

\* Singleton::save: Storage::set returns nothing and a State always serializes,
\* so the StdResult it returns is Ok; its value here is the storage written.
save(store, state) == Ok(Some(to_binary_State(state)))

\* What a call leaves behind: its result, the storage, and whether it wrote.
Outcome(res, store, written) == [res |-> res, storage |-> store, wrote |-> written]

\* Singleton::update as try_change_owner uses it: load, apply the action, and
\* save only when the action returned Ok. `output` is the action's result on
\* the loaded state; it is not looked at when the load failed.
update(store, input, output) ==
    IF ~input.ok
    THEN Outcome(Err(Std(input.err)), store, FALSE)
    ELSE IF ~output.ok
    THEN Outcome(output, store, FALSE)
    ELSE LET saved == save(store, output.val)
         IN  IF ~saved.ok
             THEN Outcome(Err(Std(saved.err)), store, FALSE)
             ELSE Outcome(output, saved.val, TRUE)

-----------------------------------------------------------------------------
\* Response envelope and outbound messages

attr(key, value) == [key |-> key, value |-> value]

Response(messages, attributes, data) ==
    [messages |-> messages, attributes |-> attributes, data |-> data]

\* Response::default / Response::new
Response_new == Response(<<>>, <<>>, None)

\* Response::add_message
add_message(r, msg) == [r EXCEPT !.messages = Append(@, msg)]

\* Response::add_attribute that skips a key the envelope already holds
add_attribute_dedup(r, key, value) ==
    IF \E i \in 1..Len(r.attributes) : r.attributes[i].key = key
    THEN r
    ELSE [r EXCEPT !.attributes = Append(@, attr(key, value))]

\* Response::add_attribute
add_attribute(r, key, value) == [r EXCEPT !.attributes = Append(@, attr(key, value))]

\* Response::set_data that keeps a payload already set
set_data_first_wins(r, data) ==
    IF r.data # None THEN r ELSE [r EXCEPT !.data = Some(data)]

\* Response::set_data
set_data(r, data) == [r EXCEPT !.data = Some(data)]

\* CosmosMsg::Wasm(WasmMsg::Execute{..})
WasmExecute(contract_addr, msg, send) ==
    [variant |-> "Wasm", type |-> "Execute", contract_addr |-> contract_addr,
     msg |-> msg, send |-> send]

\* The outbound messages a caller asks the contract to reflect: a built-in
\* variant (a bank send) and a custom one (CustomMsg::Debug).
CosmosMsgs ==
    { [variant |-> "Bank", type |-> "Send"],
      [variant |-> "Custom", type |-> "Debug"] }

MsgLists == UNION { [1..n -> CosmosMsgs] : n \in 0..MaxMsgs }

-----------------------------------------------------------------------------
\* Query collaborator (deps.querier). What the querier answers to the one
\* request a query makes is part of that call's input.

SystemErr(e) == [sys |-> "Err", err |-> e]
SystemOk(contractResult) == [sys |-> "Ok", inner |-> contractResult]
ContractErr(e) == [contract |-> "Err", err |-> e]
ContractOk(v) == [contract |-> "Ok", val |-> v]

QueryValues == {<<"pong">>, <<"balance", 123>>}
SystemErrors == {"NoSuchContract", "Unknown"}
\* "Unknown" is also a system error text: the layers must differ by more than it
ContractErrors == {"rejected", "Unknown"}

\* SystemResult<ContractResult<Binary>>, the answer of Querier::raw_query
RawAnswers ==
    {SystemErr(e) : e \in SystemErrors}
    \cup {SystemOk(ContractErr(e)) : e \in ContractErrors}
    \cup {SystemOk(ContractOk(v)) : v \in QueryValues}

\* StdResult<SpecialResponse>, the answer of QuerierWrapper::custom_query
CustomAnswers ==
    {Ok([msg |-> "DEMO ONE"]), Err(generic_err("Querier contract error"))}

\* StdResult<Option<Vec<u8>>>, the answer of QuerierWrapper::query_wasm_raw
WasmRawAnswers ==
    {Ok(None), Ok(Some(<<7, 0, 9>>)), Err(generic_err("Querier system error"))}

to_binary_CapitalizedResponse(resp) == <<"text", resp.text>>
to_binary_ChainResponse(resp) == <<"data", resp.data>>
to_binary_RawResponse(resp) == <<"data", resp.data>>

-----------------------------------------------------------------------------
\* Faulty variants of the entry points, each the original with one slip.

\* init that stores the human address bytes instead of the canonical address
init_stores_human(store, env, info, msg) ==
    LET owner == canonical_address(info.sender)
    IN  IF ~owner.ok
        THEN Outcome(Err(owner.err), store, FALSE)
        ELSE LET saved == save(store, [owner |-> info.sender])
             IN  IF msg.callback_id # None
                 THEN LET data == [id |-> msg.callback_id[1],
                                   contract_addr |-> env.contract_address]
                          wasm == WasmExecute(info.sender,
                                              to_binary_InitCallback(data), <<>>)
                      IN  Outcome(Ok(add_message(Response_new, wasm)), saved.val, TRUE)
                 ELSE Outcome(Ok(Response_new), saved.val, TRUE)

\* init that addresses the callback to the contract itself, not to the caller
init_callback_to_self(store, env, info, msg) ==
    LET owner == canonical_address(info.sender)
    IN  IF ~owner.ok
        THEN Outcome(Err(owner.err), store, FALSE)
        ELSE LET saved == save(store, [owner |-> owner.val])
             IN  IF msg.callback_id # None
                 THEN LET data == [id |-> msg.callback_id[1],
                                   contract_addr |-> env.contract_address]
                          wasm == WasmExecute(env.contract_address,
                                              to_binary_InitCallback(data), <<>>)
                      IN  Outcome(Ok(add_message(Response_new, wasm)), saved.val, TRUE)
                 ELSE Outcome(Ok(Response_new), saved.val, TRUE)

\* init that refuses to run on a contract that already has an owner
init_once(store, env, info, msg) ==
    LET owner == canonical_address(info.sender)
    IN  IF ~owner.ok
        THEN Outcome(Err(owner.err), store, FALSE)
        ELSE IF store # None
        THEN Outcome(Err(generic_err("already initialized")), store, FALSE)
        ELSE LET saved == save(store, [owner |-> owner.val])
             IN  IF msg.callback_id # None
                 THEN LET data == [id |-> msg.callback_id[1],
                                   contract_addr |-> env.contract_address]
                          wasm == WasmExecute(info.sender,
                                              to_binary_InitCallback(data), <<>>)
                      IN  Outcome(Ok(add_message(Response_new, wasm)), saved.val, TRUE)
                 ELSE Outcome(Ok(Response_new), saved.val, TRUE)

\* init that answers Ok but keeps the owner of a contract that already has one
init_keeps_first(store, env, info, msg) ==
    LET owner == canonical_address(info.sender)
    IN  IF ~owner.ok
        THEN Outcome(Err(owner.err), store, FALSE)
        ELSE LET saved == IF store # None THEN Ok(store)
                          ELSE save(store, [owner |-> owner.val])
             IN  IF msg.callback_id # None
                 THEN LET data == [id |-> msg.callback_id[1],
                                   contract_addr |-> env.contract_address]
                          wasm == WasmExecute(info.sender,
                                              to_binary_InitCallback(data), <<>>)
                      IN  Outcome(Ok(add_message(Response_new, wasm)), saved.val,
                                  store = None)
                 ELSE Outcome(Ok(Response_new), saved.val, store = None)

\* The load and the owner check of try_reflect, shared by its variants: the
\* error they end in, or Ok of the loaded state.
ReflectGuard(store, info) ==
    LET state == load(store)
    IN  IF ~state.ok
        THEN Err(Std(state.err))
        ELSE LET sender == canonical_address(info.sender)
             IN  IF ~sender.ok
                 THEN Err(Std(sender.err))
                 ELSE IF sender.val # state.val.owner
                 THEN Err(NotCurrentOwner(state.val.owner, sender.val))
                 ELSE Ok(state.val)

\* try_reflect that returns the messages without the action attribute
try_reflect_no_attr(store, env, info, msgs) ==
    LET guard == ReflectGuard(store, info)
    IN  IF ~guard.ok THEN Outcome(guard, store, FALSE)
        ELSE IF Len(msgs) = 0 THEN Outcome(Err(MessagesEmpty), store, FALSE)
        ELSE Outcome(Ok(Response(msgs, <<>>, None)), store, FALSE)

\* try_reflect that saves the state it loaded
try_reflect_saves(store, env, info, msgs) ==
    LET guard == ReflectGuard(store, info)
    IN  IF ~guard.ok THEN Outcome(guard, store, FALSE)
        ELSE IF Len(msgs) = 0 THEN Outcome(Err(MessagesEmpty), store, FALSE)
        ELSE Outcome(Ok(Response(msgs, <<attr("action", "reflect")>>, None)),
                     save(store, guard.val).val, TRUE)

\* try_reflect that reports expected and actual the wrong way round
try_reflect_swapped(store, env, info, msgs) ==
    LET guard == ReflectGuard(store, info)
    IN  IF ~guard.ok /\ guard.err.kind = "NotCurrentOwner"
        THEN Outcome(Err(NotCurrentOwner(guard.err.actual, guard.err.expected)),
                     store, FALSE)
        ELSE IF ~guard.ok THEN Outcome(guard, store, FALSE)
        ELSE IF Len(msgs) = 0 THEN Outcome(Err(MessagesEmpty), store, FALSE)
        ELSE Outcome(Ok(Response(msgs, <<attr("action", "reflect")>>, None)),
                     store, FALSE)

\* try_reflect without the is_empty check
try_reflect_allows_empty(store, env, info, msgs) ==
    LET guard == ReflectGuard(store, info)
    IN  IF ~guard.ok THEN Outcome(guard, store, FALSE)
        ELSE Outcome(Ok(Response(msgs, <<attr("action", "reflect")>>, None)),
                     store, FALSE)

\* the closure of try_change_owner without the sender check
change_owner_action_unguarded(state, info, owner) ==
    LET new == canonical_address(owner)
    IN  IF ~new.ok THEN Err(Std(new.err))
        ELSE Ok([state EXCEPT !.owner = new.val])

\* the closure of try_change_owner assigning the sender, not the new owner
change_owner_action_keeps_sender(state, info, owner) ==
    LET sender == canonical_address(info.sender)
    IN  IF ~sender.ok THEN Err(Std(sender.err))
        ELSE IF sender.val # state.owner
        THEN Err(NotCurrentOwner(state.owner, sender.val))
        ELSE LET new == canonical_address(owner)
             IN  IF ~new.ok THEN Err(Std(new.err))
                 ELSE Ok([state EXCEPT !.owner = sender.val])

\* the closure of try_change_owner validating the new owner before the sender
change_owner_action_validates_first(state, info, owner) ==
    LET new == canonical_address(owner)
    IN  IF ~new.ok THEN Err(Std(new.err))
        ELSE LET sender == canonical_address(info.sender)
             IN  IF ~sender.ok THEN Err(Std(sender.err))
                 ELSE IF sender.val # state.owner
                 THEN Err(NotCurrentOwner(state.owner, sender.val))
                 ELSE Ok([state EXCEPT !.owner = new.val])

\* the closure of try_change_owner storing the new owner's bytes unvalidated
change_owner_action_unvalidated(state, info, owner) ==
    LET sender == canonical_address(info.sender)
    IN  IF ~sender.ok THEN Err(Std(sender.err))
        ELSE IF sender.val # state.owner
        THEN Err(NotCurrentOwner(state.owner, sender.val))
        ELSE Ok([state EXCEPT !.owner = owner])

-----------------------------------------------------------------------------
\* Entry points. Each returns the call's result and the storage it leaves.

init(store, env, info, msg) ==
    LET owner == canonical_address(info.sender)
    IN  IF ~owner.ok
        THEN Outcome(Err(owner.err), store, FALSE)
        ELSE LET state == [owner |-> owner.val]
                 saved == save(store, state)
             IN  IF ~saved.ok
                 THEN Outcome(Err(saved.err), store, FALSE)
                 ELSE IF msg.callback_id # None
                 THEN LET data == [id |-> msg.callback_id[1],
                                   contract_addr |-> env.contract_address]
                          wasm == WasmExecute(info.sender,
                                              to_binary_InitCallback(data), <<>>)
                      IN  Outcome(Ok(add_message(Response_new, wasm)), saved.val, TRUE)
                 ELSE Outcome(Ok(Response_new), saved.val, TRUE)

try_reflect(store, env, info, msgs) ==
    LET state == load(store)
    IN  IF ~state.ok
        THEN Outcome(Err(Std(state.err)), store, FALSE)
        ELSE LET sender == canonical_address(info.sender)
             IN  IF ~sender.ok
                 THEN Outcome(Err(Std(sender.err)), store, FALSE)
                 ELSE IF sender.val # state.val.owner
                 THEN Outcome(Err(NotCurrentOwner(state.val.owner, sender.val)),
                              store, FALSE)
                 ELSE IF Len(msgs) = 0
                 THEN Outcome(Err(MessagesEmpty), store, FALSE)
                 ELSE Outcome(Ok(Response(msgs, <<attr("action", "reflect")>>, None)),
                              store, FALSE)

\* The closure try_change_owner hands to update (it captures api, info, owner).
change_owner_action(state, info, owner) ==
    LET sender == canonical_address(info.sender)
    IN  IF ~sender.ok
        THEN Err(Std(sender.err))
        ELSE IF sender.val # state.owner
        THEN Err(NotCurrentOwner(state.owner, sender.val))
        ELSE LET new == canonical_address(owner)
             IN  IF ~new.ok
                 THEN Err(Std(new.err))
                 ELSE Ok([state EXCEPT !.owner = new.val])

\* try_change_owner that writes the new owner first and checks the sender after
try_change_owner_writes_first(store, env, info, owner) ==
    LET input == load(store)
        new == canonical_address(owner)
        written == IF new.ok THEN save(store, [owner |-> new.val]).val ELSE store
        output == change_owner_action(input.val, info, owner)
    IN  IF ~input.ok
        THEN Outcome(Err(Std(input.err)), store, FALSE)
        ELSE IF ~output.ok
        THEN Outcome(output, written, new.ok)
        ELSE Outcome(Ok(Response(<<>>,
                                 <<attr("action", "change_owner"), attr("owner", owner)>>,
                                 None)),
                     written, TRUE)

\* try_change_owner that removes the record and puts it back only on success
try_change_owner_removes(store, env, info, owner) ==
    LET input == load(store)
        output == change_owner_action(input.val, info, owner)
        updated == update(store, input, output)
    IN  IF ~updated.res.ok
        THEN Outcome(updated.res, None, store # None)
        ELSE Outcome(Ok(Response(<<>>,
                                 <<attr("action", "change_owner"), attr("owner", owner)>>,
                                 None)),
                     updated.storage, updated.wrote)

try_change_owner(store, env, info, owner) ==
    LET input == load(store)
        output == change_owner_action(input.val, info, owner)
        updated == update(store, input, output)
    IN  IF ~updated.res.ok
        THEN updated
        ELSE Outcome(Ok(Response(<<>>,
                                 <<attr("action", "change_owner"), attr("owner", owner)>>,
                                 None)),
                     updated.storage, updated.wrote)

handle(store, env, info, msg) ==
    IF msg.type = "ReflectMsg"
    THEN try_reflect(store, env, info, msg.msgs)
    ELSE try_change_owner(store, env, info, msg.owner)

query_owner(store) ==
    LET state == load(store)
    IN  IF ~state.ok
        THEN Err(state.err)
        ELSE LET owner == human_address(state.val.owner)
             IN  IF ~owner.ok THEN Err(owner.err) ELSE Ok([owner |-> owner.val])

query_capitalized(deps, text) ==
    LET response == deps.querier
    IN  IF ~response.ok
        THEN Err(response.err)
        ELSE Ok([text |-> response.val.msg])

\* query_chain that reports both failure layers with one description
query_chain_flat(deps, request) ==
    LET answer == deps.querier
    IN  IF answer.sys = "Err"
        THEN Err(generic_err(<<"Querier error: ", answer.err>>))
        ELSE IF answer.inner.contract = "Err"
        THEN Err(generic_err(<<"Querier error: ", answer.inner.err>>))
        ELSE Ok([data |-> answer.inner.val])

\* The request is serialized and handed to raw_query; the requests drawn here
\* always serialize, and deps.querier is raw_query's answer to them.
query_chain(deps, request) ==
    LET answer == deps.querier
    IN  IF answer.sys = "Err"
        THEN Err(generic_err(<<"Querier system error: ", answer.err>>))
        ELSE IF answer.inner.contract = "Err"
        THEN Err(generic_err(<<"Querier contract error: ", answer.inner.err>>))
        ELSE Ok([data |-> answer.inner.val])

\* Option::unwrap_or_default
unwrap_or_default(opt) == IF opt = None THEN <<>> ELSE opt[1]

\* query_raw that treats a missing key as an error
query_raw_missing_is_error(deps, contract, key) ==
    LET response == deps.querier
    IN  IF ~response.ok
        THEN Err(response.err)
        ELSE IF response.val = None
        THEN Err(not_found("raw key"))
        ELSE Ok([data |-> response.val[1]])

query_raw(deps, contract, key) ==
    LET response == deps.querier
    IN  IF ~response.ok
        THEN Err(response.err)
        ELSE Ok([data |-> unwrap_or_default(response.val)])

\* Each arm is `to_binary(&query_x(deps)?)`: the error of query_x, or its
\* response encoded.
query(deps, env, msg) ==
    CASE msg.type = "Owner" ->
            LET resp == query_owner(deps.storage)
            IN  IF ~resp.ok THEN Err(resp.err)
                ELSE Ok(to_binary_OwnerResponse(resp.val))
      [] msg.type = "Capitalized" ->
            LET resp == query_capitalized(deps, msg.text)
            IN  IF ~resp.ok THEN Err(resp.err)
                ELSE Ok(to_binary_CapitalizedResponse(resp.val))
      [] msg.type = "Chain" ->
            LET resp == query_chain(deps, msg.request)
            IN  IF ~resp.ok THEN Err(resp.err)
                ELSE Ok(to_binary_ChainResponse(resp.val))
      [] msg.type = "Raw" ->
            LET resp == query_raw(deps, msg.contract, msg.key)
            IN  IF ~resp.ok THEN Err(resp.err)
                ELSE Ok(to_binary_RawResponse(resp.val))

\* query run against a store and a querier answer
QueryResult(store, querier, env, msg) ==
    query([storage |-> store, querier |-> querier], env, msg)

\* query_call that saves the state it loaded for the owner query
query_call_saves(store, querier, env, msg) ==
    IF msg.type = "Owner" /\ load(store).ok
    THEN Outcome(QueryResult(store, querier, env, msg),
                 save(store, load(store).val).val, TRUE)
    ELSE Outcome(QueryResult(store, querier, env, msg), store, FALSE)

\* query_call that keeps the bytes of a raw query in the contract's own record
query_call_caches_raw(store, querier, env, msg) ==
    IF msg.type = "Raw" /\ querier.ok /\ querier.val # None
    THEN Outcome(QueryResult(store, querier, env, msg),
                 save(store, [owner |-> querier.val[1]]).val, TRUE)
    ELSE Outcome(QueryResult(store, querier, env, msg), store, FALSE)

\* The query entry point as a call: it borrows the storage read-only
\* (deps: Deps), so it returns its result and leaves the storage as it found it.
query_call(store, querier, env, msg) ==
    Outcome(QueryResult(store, querier, env, msg), store, FALSE)

-----------------------------------------------------------------------------
\* The state machine

Envs == {[contract_address |-> a] : a \in ContractAddrs}
\* handle and query ignore their env (_env): they are called with mock_env()
mock_env == [contract_address |-> MOCK_CONTRACT_ADDR]
Infos == {[sender |-> h] : h \in HumanAddrs}
InitMsgs == {[callback_id |-> c] : c \in Options(CallbackIds)}
HandleMsgs ==
    {[type |-> "ReflectMsg", msgs |-> m] : m \in MsgLists}
    \cup {[type |-> "ChangeOwner", owner |-> h] : h \in HumanAddrs}
QueryMsgs ==
    { [type |-> "Owner"],
      [type |-> "Capitalized", text |-> "demo one"],
      [type |-> "Chain", request |-> "Ping"],
      [type |-> "Raw", contract |-> Friend, key |-> <<4, 2>>] }

\* The answers the querier can give to the request `msg` makes; the owner query
\* asks it nothing.
Queriers(msg) ==
    CASE msg.type = "Owner" -> {Ok(None)}
      [] msg.type = "Capitalized" -> CustomAnswers
      [] msg.type = "Chain" -> RawAnswers
      [] msg.type = "Raw" -> WasmRawAnswers

NoCall == [op |-> "none"]
NoResult == Ok("none")

\* A freshly instantiated contract: empty storage, nothing called yet.
Init ==
    /\ storage = None
    /\ pre = None
    /\ call = NoCall
    /\ result = NoResult
    /\ wrote = FALSE
    /\ prevCall = NoCall
    /\ prevResult = NoResult
    /\ envelope = Response_new
    /\ log = <<>>

Returned(c, out) ==
    /\ pre' = storage
    /\ storage' = out.storage
    /\ call' = c
    /\ result' = out.res
    /\ wrote' = out.wrote
    /\ prevCall' = call
    /\ prevResult' = result
    /\ UNCHANGED respVars

DoInit ==
    \E env \in Envs, info \in Infos, msg \in InitMsgs :
        Returned([op |-> "init", env |-> env, info |-> info, msg |-> msg],
                 init(storage, env, info, msg))

DoHandle ==
    \E env \in {mock_env}, info \in Infos, msg \in HandleMsgs :
        Returned([op |-> "handle", env |-> env, info |-> info, msg |-> msg],
                 handle(storage, env, info, msg))

DoQuery ==
    \E env \in {mock_env}, msg \in QueryMsgs :
        \E querier \in Queriers(msg) :
            Returned([op |-> "query", env |-> env, msg |-> msg, querier |-> querier],
                     query_call(storage, querier, env, msg))

Next == DoInit \/ DoHandle \/ DoQuery

Spec == Init /\ [][Next]_vars

-----------------------------------------------------------------------------
\* The Response builder on its own: starting from Response::new(), any
\* interleaving of add_attribute, add_message and set_data.

AttributeKeys == {"action", "foo"}
AttributeValues == {"bar", "init"}
Binaries == {<<170, 187>>, <<1>>}

AddAttribute ==
    /\ Len(log) < MaxOps
    /\ \E key \in AttributeKeys, value \in AttributeValues :
        /\ envelope' = add_attribute(envelope, key, value)
        /\ log' = Append(log, [op |-> "add_attribute", key |-> key, value |-> value])
    /\ UNCHANGED contractVars

AddMessage ==
    /\ Len(log) < MaxOps
    /\ \E msg \in CosmosMsgs :
        /\ envelope' = add_message(envelope, msg)
        /\ log' = Append(log, [op |-> "add_message", msg |-> msg])
    /\ UNCHANGED contractVars

SetData ==
    /\ Len(log) < MaxOps
    /\ \E data \in Binaries :
        /\ envelope' = set_data(envelope, data)
        /\ log' = Append(log, [op |-> "set_data", data |-> data])
    /\ UNCHANGED contractVars

ResponseNext == AddAttribute \/ AddMessage \/ SetData

ResponseSpec == Init /\ [][ResponseNext]_vars

-----------------------------------------------------------------------------
\* Vocabulary of the properties

IsInit == call.op = "init"
IsReflect == call.op = "handle" /\ call.msg.type = "ReflectMsg"
IsChangeOwner == call.op = "handle" /\ call.msg.type = "ChangeOwner"
IsOwnerQuery == call.op = "query" /\ call.msg.type = "Owner"
PrevIsChangeOwner == prevCall.op = "handle" /\ prevCall.msg.type = "ChangeOwner"

\* The contract was initialized before the last call started.
Initialized == pre # None
\* The owner stored when the last call started.
PreOwner == load(pre).val.owner
\* The last caller's canonical identity (a Result: the caller may be invalid).
CanonSender == canonical_address(call.info.sender)
CallerIsOwner == Initialized /\ CanonSender.ok /\ CanonSender.val = PreOwner
CallerIsNonOwner == Initialized /\ CanonSender.ok /\ CanonSender.val # PreOwner

\* What the owner query returns in the current state.
OwnerQueryNow ==
    query([storage |-> storage, querier |-> Ok(None)], mock_env, [type |-> "Owner"])
OwnerAnswer(human) == Ok(to_binary_OwnerResponse([owner |-> human]))

-----------------------------------------------------------------------------
\* C1: after a successful init, ChangeOwner issued by a caller whose canonical
\* identity differs from the stored owner fails with NotCurrentOwner carrying
\* the stored owner as expected and the caller's identity as actual, and the
\* owner record is not written.
C1_ChangeOwnerByNonOwnerRejected ==
    (IsChangeOwner /\ CallerIsNonOwner)
        => /\ result = Err(NotCurrentOwner(PreOwner, CanonSender.val))
           /\ ~wrote
           /\ storage = pre

C1_Witness ==
    /\ IsChangeOwner /\ CallerIsNonOwner
    /\ canonical_address(call.msg.owner).ok
    /\ ~result.ok

\* C2: once ChangeOwner{N} issued by owner O has succeeded, the owner query
\* returns N's display identity, and the next ChangeOwner by O (O different
\* from N) fails with NotCurrentOwner.
C2_ChangeOwnerTakesEffect ==
    /\ (IsChangeOwner /\ result.ok) => OwnerQueryNow = OwnerAnswer(call.msg.owner)
    /\ (PrevIsChangeOwner /\ prevResult.ok /\ IsOwnerQuery)
            => result = OwnerAnswer(prevCall.msg.owner)
    /\ (/\ PrevIsChangeOwner /\ prevResult.ok
        /\ IsChangeOwner
        /\ call.info.sender = prevCall.info.sender
        /\ prevCall.msg.owner # prevCall.info.sender)
            => result = Err(NotCurrentOwner(canonical_address(prevCall.msg.owner).val,
                                            CanonSender.val))

C2_Witness ==
    /\ PrevIsChangeOwner /\ prevResult.ok
    /\ IsChangeOwner
    /\ call.info.sender = prevCall.info.sender
    /\ prevCall.msg.owner # prevCall.info.sender
    /\ ~result.ok /\ result.err.kind = "NotCurrentOwner"

\* C3: ChangeOwner issued by the owner with a new address the address
\* collaborator rejects fails with a generic (Std) error, not a domain error,
\* and leaves the owner record as it was.
C3_InvalidNewOwnerRejected ==
    (IsChangeOwner /\ CallerIsOwner /\ ~canonical_address(call.msg.owner).ok)
        => /\ ~result.ok
           /\ result.err = Std(canonical_address(call.msg.owner).err)
           /\ result.err.source.kind = "GenericErr"
           /\ storage = pre
           /\ ~wrote

C3_Witness ==
    /\ IsChangeOwner /\ CallerIsOwner
    /\ call.msg.owner = TooShort
    /\ ~result.ok /\ result.err.kind = "Std"

\* C4: Reflect of a non-empty message list issued by the owner succeeds with
\* an envelope holding exactly that list, the single attribute action=reflect
\* and no data.
C4_ReflectReturnsMessages ==
    (IsReflect /\ CallerIsOwner /\ Len(call.msg.msgs) > 0)
        => result = Ok(Response(call.msg.msgs, <<attr("action", "reflect")>>, None))

C4_Witness ==
    /\ IsReflect /\ CallerIsOwner
    /\ Len(call.msg.msgs) = MaxMsgs
    /\ call.msg.msgs[1] # call.msg.msgs[2]
    /\ \E i \in 1..MaxMsgs : call.msg.msgs[i].variant = "Custom"
    /\ result.ok /\ result.val.messages = call.msg.msgs

\* C5: Reflect never mutates the owner record, whoever calls it, whatever the
\* messages, and whether it succeeds or fails.
C5_ReflectLeavesOwnerRecord ==
    IsReflect => (storage = pre /\ ~wrote)

C5_Witness ==
    /\ IsReflect /\ Initialized
    /\ result.ok
    /\ prevCall.op = "handle" /\ prevCall.msg.type = "ReflectMsg" /\ ~prevResult.ok

\* C6: Reflect of a non-empty message list by a caller whose identity differs
\* from the stored owner fails with NotCurrentOwner{expected: stored owner,
\* actual: caller}; no envelope is returned.
C6_ReflectByNonOwnerRejected ==
    (IsReflect /\ CallerIsNonOwner /\ Len(call.msg.msgs) > 0)
        => result = Err(NotCurrentOwner(PreOwner, CanonSender.val))

C6_Witness ==
    /\ IsReflect /\ CallerIsNonOwner /\ Len(call.msg.msgs) > 0
    /\ ~result.ok /\ result.err.kind = "NotCurrentOwner"
    /\ result.err.expected # result.err.actual

\* C7: Reflect of the empty message list issued by the current owner fails
\* with MessagesEmpty.
C7_EmptyReflectRejected ==
    (IsReflect /\ CallerIsOwner /\ Len(call.msg.msgs) = 0)
        => result = Err(MessagesEmpty)

C7_Witness ==
    /\ IsReflect /\ CallerIsOwner /\ call.msg.msgs = <<>>
    /\ ~result.ok

\* C8: init by any valid caller C succeeds, and the owner query issued next
\* returns C's display identity.
C8_InitThenOwnerQuery ==
    /\ (IsInit /\ CanonSender.ok)
            => (result.ok /\ OwnerQueryNow = OwnerAnswer(call.info.sender))
    /\ (prevCall.op = "init" /\ prevResult.ok /\ IsOwnerQuery)
            => result = OwnerAnswer(prevCall.info.sender)

C8_Witness ==
    /\ prevCall.op = "init" /\ prevCall.msg.callback_id = None /\ prevResult.ok
    /\ Len(prevCall.info.sender) < CanonicalLength
    /\ IsOwnerQuery
    /\ result.ok

\* C9: a successful init returns an envelope without attributes or data; it
\* holds no message when callback_id is absent and exactly one when it is
\* present: an Execute addressed to the caller, with no funds, carrying the
\* callback id and the contract's own address.
C9_InitEnvelope ==
    (IsInit /\ result.ok)
        => /\ result.val.attributes = <<>>
           /\ result.val.data = None
           /\ call.msg.callback_id = None => result.val.messages = <<>>
           /\ call.msg.callback_id # None =>
                /\ Len(result.val.messages) = 1
                /\ LET m == result.val.messages[1]
                   IN  /\ m.variant = "Wasm" /\ m.type = "Execute"
                       /\ m.contract_addr = call.info.sender
                       /\ m.send = <<>>
                       /\ from_binary_InitCallback(m.msg)
                            = [id |-> call.msg.callback_id[1],
                               contract_addr |-> call.env.contract_address]

C9_Witness ==
    /\ IsInit /\ result.ok
    /\ call.msg.callback_id = Some("foobar")
    /\ call.env.contract_address # call.info.sender
    /\ Len(result.val.messages) = 1

\* C10 as stated: init returns an error only when the Store's save fails.
C10_InitFailsOnlyOnStoreFailure ==
    (IsInit /\ ~result.ok) => result.err.kind = "SerializeErr"

\* C10, amended: init first converts the caller's address; when the address
\* collaborator rejects it, init fails with that error and writes nothing.
\* Otherwise init writes owner = the caller's canonical identity, whatever was
\* stored before, and fails only if the Store's save fails.
C10_InitFailsOnlyOnAddressOrStore ==
    IsInit =>
        IF CanonSender.ok
        THEN /\ wrote
             /\ storage = Some(to_binary_State([owner |-> CanonSender.val]))
             /\ result.ok \/ result.err.kind = "SerializeErr"
        ELSE /\ result = Err(CanonSender.err)
             /\ ~wrote
             /\ storage = pre

C10_Witness ==
    /\ IsInit /\ CanonSender.ok /\ result.ok
    /\ Initialized /\ PreOwner # CanonSender.val
    /\ prevCall.op = "init" /\ ~prevResult.ok

\* C11: a call to init or handle that returns an error, of whatever kind,
\* leaves the persisted owner record exactly as it was: nothing is written
\* before the failure.
C11_FailedCallLeavesOwnerRecord ==
    ((call.op = "init" \/ call.op = "handle") /\ ~result.ok)
        => (storage = pre /\ ~wrote)

C11_Witness ==
    /\ IsChangeOwner /\ CallerIsNonOwner
    /\ canonical_address(call.msg.owner).ok
    /\ canonical_address(call.msg.owner).val # PreOwner
    /\ ~result.ok
    /\ prevCall.op = "init" /\ ~prevResult.ok

\* C12: once an init has succeeded the owner record is always present and
\* well formed: no call deletes it, no handle fails for want of it, and the
\* owner query always succeeds.
C12_OwnerRecordAlwaysPresent ==
    Initialized
        => /\ storage # None
           /\ load(storage).ok
           /\ Len(load(storage).val.owner) = CanonicalLength
           /\ (call.op = "handle" /\ ~result.ok)
                => result.err # Std(not_found("reflect::state::State"))
           /\ IsOwnerQuery => result.ok

C12_Witness ==
    /\ Initialized /\ storage # None
    /\ IsOwnerQuery /\ result.ok
    /\ prevCall.op = "handle" /\ ~prevResult.ok
    /\ prevResult.err.kind = "Std"

\* The owner query run against a given storage.
OwnerQueryAt(store) == QueryResult(store, Ok(None), mock_env, [type |-> "Owner"])

\* C13: a query of any of the four shapes, succeeding or failing, leaves the
\* persisted store as it was and writes nothing; its result is decided by the
\* store, the request and the collaborator's answer alone, and it is never an
\* authorization failure.
C13_QueriesAreSideEffectFree ==
    call.op = "query"
        => /\ storage = pre
           /\ ~wrote
           /\ result = QueryResult(pre, call.querier, call.env, call.msg)
           /\ ~result.ok => result.err.kind \in {"GenericErr", "NotFound"}

C13_Witness ==
    /\ call.op = "query" /\ call.msg.type = "Raw" /\ ~result.ok
    /\ prevCall.op = "query" /\ prevCall.msg.type = "Chain" /\ prevResult.ok
    /\ Initialized /\ storage = pre

\* C14: a query step never changes what the owner query returns, and every
\* owner query returns that value; so owner queries repeated with only queries
\* in between all return the same value.
C14_OwnerQueryRepeatable ==
    /\ call.op = "query"
            => /\ OwnerQueryAt(storage) = OwnerQueryAt(pre)
               /\ IsOwnerQuery => result = OwnerQueryAt(pre)
    /\ (IsOwnerQuery /\ prevCall.op = "query" /\ prevCall.msg.type = "Owner")
            => result = prevResult

C14_Witness ==
    /\ IsOwnerQuery /\ result.ok
    /\ prevCall.op = "query" /\ prevCall.msg.type = "Owner"
    /\ prevResult = result

IsChainQuery == call.op = "query" /\ call.msg.type = "Chain"
PrevIsChainQuery == prevCall.op = "query" /\ prevCall.msg.type = "Chain"
IsRawQuery == call.op = "query" /\ call.msg.type = "Raw"

\* The layer of a raw_query answer: transport failure, logical failure, value.
Layer(answer) ==
    IF answer.sys = "Err" THEN "system"
    ELSE IF answer.inner.contract = "Err" THEN "contract"
    ELSE "value"

\* C15: the chain query turns Ok(Ok(v)) into success carrying exactly v,
\* Ok(Err(e)) into an error marked as a contract failure carrying e, and
\* Err(s) into an error marked as a system failure carrying s; only Ok(Ok(v))
\* yields a value, and answers of different layers never give the same result.
C15_ChainQueryKeepsLayers ==
    /\ IsChainQuery =>
        LET answer == call.querier
        IN  /\ Layer(answer) = "value"
                => result = Ok(to_binary_ChainResponse([data |-> answer.inner.val]))
            /\ Layer(answer) = "contract"
                => result = Err(generic_err(<<"Querier contract error: ",
                                              answer.inner.err>>))
            /\ Layer(answer) = "system"
                => result = Err(generic_err(<<"Querier system error: ", answer.err>>))
            /\ result.ok <=> Layer(answer) = "value"
    /\ (IsChainQuery /\ PrevIsChainQuery
        /\ Layer(call.querier) # Layer(prevCall.querier))
            => result # prevResult

C15_Witness ==
    /\ IsChainQuery /\ PrevIsChainQuery
    /\ Layer(call.querier) = "system" /\ Layer(prevCall.querier) = "contract"
    /\ call.querier.err = prevCall.querier.inner.err
    /\ ~result.ok /\ ~prevResult.ok

\* C16: the raw query returns an empty byte sequence when the collaborator
\* reports the key as missing, the stored bytes unchanged when the key is
\* present, and an error only when the collaborator itself failed.
C16_RawQueryMissingKeyIsEmpty ==
    IsRawQuery =>
        /\ call.querier = Ok(None) => result = Ok(to_binary_RawResponse([data |-> <<>>]))
        /\ (call.querier.ok /\ call.querier.val # None)
                => result = Ok(to_binary_RawResponse([data |-> call.querier.val[1]]))
        /\ ~result.ok => (~call.querier.ok /\ result.err = call.querier.err)

C16_Witness ==
    /\ IsRawQuery /\ call.querier = Ok(None) /\ result.ok
    /\ prevCall.op = "query" /\ prevCall.msg.type = "Raw"
    /\ prevCall.querier.ok /\ prevCall.querier.val # None /\ prevResult.ok

-----------------------------------------------------------------------------
\* What a sequence of builder calls asks for, read off the call log

Front(l) == SubSeq(l, 1, Len(l) - 1)
Last(l) == l[Len(l)]

RECURSIVE MessagesIn(_)
MessagesIn(l) ==
    IF l = <<>> THEN <<>>
    ELSE IF Last(l).op = "add_message"
    THEN Append(MessagesIn(Front(l)), Last(l).msg)
    ELSE MessagesIn(Front(l))

RECURSIVE AttributesIn(_)
AttributesIn(l) ==
    IF l = <<>> THEN <<>>
    ELSE IF Last(l).op = "add_attribute"
    THEN Append(AttributesIn(Front(l)), [key |-> Last(l).key, value |-> Last(l).value])
    ELSE AttributesIn(Front(l))

RECURSIVE LastDataIn(_)
LastDataIn(l) ==
    IF l = <<>> THEN None
    ELSE IF Last(l).op = "set_data"
    THEN Some(Last(l).data)
    ELSE LastDataIn(Front(l))

\* C17: Response::new() is empty; after any interleaving of add_message and
\* add_attribute (and set_data) the messages are the add_message arguments in
\* call order and the attributes the add_attribute pairs in call order,
\* duplicates kept; add_message leaves attributes and data alone, and
\* add_attribute leaves messages and data alone.
C17_BuilderKeepsCallOrder ==
    /\ log = <<>> => envelope = Response(<<>>, <<>>, None)
    /\ envelope.messages = MessagesIn(log)
    /\ envelope.attributes = AttributesIn(log)
    /\ (log # <<>> /\ Last(log).op = "add_message")
            => /\ envelope.attributes = AttributesIn(Front(log))
               /\ envelope.data = LastDataIn(Front(log))
    /\ (log # <<>> /\ Last(log).op = "add_attribute")
            => /\ envelope.messages = MessagesIn(Front(log))
               /\ envelope.data = LastDataIn(Front(log))

C17_Witness ==
    /\ Len(log) = MaxOps
    /\ log[1].op = "add_attribute" /\ log[2].op = "add_message"
    /\ log[3] = log[1]
    /\ Len(envelope.attributes) = 2 /\ envelope.attributes[1] = envelope.attributes[2]
    /\ Len(envelope.messages) = 1

\* C18: data is absent until the first set_data; afterwards it is the
\* argument of the last set_data, and set_data leaves messages and attributes
\* alone.
C18_SetDataLastWriteWins ==
    /\ envelope.data = LastDataIn(log)
    /\ (\A i \in 1..Len(log) : log[i].op # "set_data") => envelope.data = None
    /\ (log # <<>> /\ Last(log).op = "set_data")
            => /\ envelope.data = Some(Last(log).data)
               /\ envelope.messages = MessagesIn(Front(log))
               /\ envelope.attributes = AttributesIn(Front(log))

C18_Witness ==
    /\ Len(log) = MaxOps
    /\ log[1].op = "set_data" /\ log[2].op = "add_attribute" /\ log[3].op = "set_data"
    /\ log[1].data # log[3].data
    /\ envelope.data = Some(log[3].data)
    /\ Len(envelope.attributes) = 1

-----------------------------------------------------------------------------
\* The record that holds `human` as owner.
RecordOf(human) == Some(to_binary_State([owner |-> canonical_address(human).val]))

SetsOwner == (IsInit \/ IsChangeOwner) /\ result.ok
PrevSetOwner ==
    /\ prevCall.op = "init" \/ PrevIsChangeOwner
    /\ prevResult.ok
\* The owner a successful init or ChangeOwner asks for.
TargetOf(c) == IF c.op = "init" THEN c.info.sender ELSE c.msg.owner

\* C19: the stored owner changes in two ways only: a successful init sets it
\* to that init's caller, and a successful ChangeOwner{N}, which only the
\* then-current owner can issue, sets it to N. Every other call leaves it, so
\* it always equals the target of the latest of these, and handle calls made
\* by non-owners never change it.
C19_OwnerChangesOnlyByInitOrOwner ==
    /\ (IsInit /\ result.ok) => storage = RecordOf(call.info.sender)
    /\ (IsChangeOwner /\ result.ok)
            => (CallerIsOwner /\ storage = RecordOf(call.msg.owner))
    /\ (call.op # "none" /\ ~SetsOwner) => storage = pre
    /\ (call.op = "handle" /\ ~CallerIsOwner) => storage = pre
    /\ (PrevSetOwner /\ call.op # "none" /\ ~SetsOwner)
            => storage = RecordOf(TargetOf(prevCall))

C19_Witness ==
    /\ PrevIsChangeOwner /\ prevResult.ok
    /\ prevCall.msg.owner # prevCall.info.sender
    /\ IsChangeOwner /\ call.info.sender = prevCall.info.sender
    /\ canonical_address(call.msg.owner).ok
    /\ call.msg.owner # prevCall.msg.owner
    /\ ~result.ok
    /\ storage = RecordOf(prevCall.msg.owner)

IsEmptyReflect == IsReflect /\ call.msg.msgs = <<>>
IsInvalidChangeOwner == IsChangeOwner /\ ~canonical_address(call.msg.owner).ok
\* The last handle call failed with the address collaborator's generic error.
GotAddressError ==
    /\ call.op = "handle" /\ ~result.ok
    /\ result.err.kind = "Std"
    /\ result.err.source.kind = "GenericErr"
\* A caller with a valid address other than the owner's is told so before the
\* payload is looked at.
NonOwnerToldFirst ==
    (call.op = "handle" /\ CallerIsNonOwner /\ (IsEmptyReflect \/ IsInvalidChangeOwner))
        => result = Err(NotCurrentOwner(PreOwner, CanonSender.val))
MessagesEmptyOnlyToOwner ==
    (call.op = "handle" /\ result = Err(MessagesEmpty)) => CallerIsOwner

\* C20 as stated: a valid non-owner gets NotCurrentOwner for Reflect{[]} and
\* for ChangeOwner{invalid address}; MessagesEmpty and the generic address
\* error are returned only to the current owner.
C20_PayloadErrorsOnlyToOwner ==
    /\ NonOwnerToldFirst
    /\ MessagesEmptyOnlyToOwner
    /\ GotAddressError => CallerIsOwner

\* C20, amended: as stated, except that the generic address error is also
\* returned to a caller whose own address the address collaborator rejects;
\* of the callers with a valid address only the current owner gets it, and
\* then it is the error of the new owner's address.
C20_AuthorizationBeforePayload ==
    /\ NonOwnerToldFirst
    /\ MessagesEmptyOnlyToOwner
    /\ GotAddressError =>
        IF CanonSender.ok
        THEN /\ CallerIsOwner
             /\ IsInvalidChangeOwner
             /\ result.err.source = canonical_address(call.msg.owner).err
        ELSE result.err.source = CanonSender.err

C20_Witness ==
    /\ IsInvalidChangeOwner /\ CallerIsNonOwner
    /\ ~result.ok /\ result.err.kind = "NotCurrentOwner"
    /\ prevCall.op = "handle" /\ prevCall.msg.type = "ReflectMsg"
    /\ prevCall.msg.msgs = <<>>
    /\ prevCall.info.sender = call.info.sender
    /\ ~prevResult.ok /\ prevResult.err.kind = "NotCurrentOwner"

====
